---- MODULE Spec2Model ----
(***************************************************************************)
(* Model of kiwistand-cli (src/src/main.rs): one process handles one       *)
(* command (config, submit, vote) against the configuration file           *)
(* ~/.kiwistand/config.toml, a signing backend (Ledger or local keystore)  *)
(* and the HTTP endpoint.  The steps of main, create_message and send are  *)
(* actions; the file system, the key store, the device and the network are *)
(* recorded so that the order of side effects can be stated.               *)
(***************************************************************************)
EXTENDS Integers, Sequences, FiniteSets, TLC

\* ---------------------------------------------------------------- bounds
MaxIndex == 1
MaxTime == 1
MaxEdits == 1

\* ------------------------------------------------------- Option<T> values
None == <<>>
Some(x) == <<x>>
IsNone(o) == Len(o) = 0
IsSome(o) == Len(o) = 1
Unwrap(o) == o[1]

\* ------------------------------------------------------------ input sets
DefaultEndpoint == "https://news.kiwistand.com/api/v1/messages"
DefaultKeystore == "<Path>"
KeyPath == "~/.kiwistand/key"
KeyPassword == "pw"
BaseTime == 1676559616

Hrefs == {"", "https://example.com"}
Titles == {"", "hello world"}
Passwords == {KeyPassword, "bad"}
Endpoints == {DefaultEndpoint, "http://localhost:8000/api/v1/messages"}
Paths == {DefaultKeystore, KeyPath, "/keys/alt"}
Indexes == 0..MaxIndex
Times == BaseTime..(BaseTime + MaxTime)

Opt(S) == {None} \cup {Some(x) : x \in S}

\* --------------------------------------------------------------- Config
Config(endpoint, use_ledger, ledger_address_index, path_to_keystore) ==
    [endpoint |-> endpoint, use_ledger |-> use_ledger,
     ledger_address_index |-> ledger_address_index,
     path_to_keystore |-> path_to_keystore]

Configs == {Config(e, l, i, p) : e \in Endpoints, l \in BOOLEAN, i \in Indexes, p \in Paths}

DefaultConfig == Config(DefaultEndpoint, TRUE, 0, DefaultKeystore)

\* ------------------------------------------------- TOML text of the file
\* A document is a sequence of lines <<key, kind of value, value as written>>.
BoolStr(b) == IF b THEN "true" ELSE "false"

ToToml(c) ==
    << <<"endpoint", "string", c.endpoint>>,
       <<"use_ledger", "boolean", BoolStr(c.use_ledger)>>,
       <<"ledger_address_index", "integer", ToString(c.ledger_address_index)>>,
       <<"path_to_keystore", "string", c.path_to_keystore>> >>

Values(text, key, kind) ==
    {text[i][3] : i \in {j \in DOMAIN text : text[j][1] = key /\ text[j][2] = kind}}

Keys(text, key) == {i \in DOMAIN text : text[i][1] = key}

ParseBool(s) == {b \in BOOLEAN : BoolStr(b) = s}
ParseUsize(s) == {n \in Indexes : ToString(n) = s}

Parses(text) ==
    /\ \A k \in {"endpoint", "use_ledger", "ledger_address_index", "path_to_keystore"} :
          Cardinality(Keys(text, k)) = 1
    /\ Cardinality(Values(text, "endpoint", "string")) = 1
    /\ Cardinality(Values(text, "path_to_keystore", "string")) = 1
    /\ \E s \in Values(text, "use_ledger", "boolean") : ParseBool(s) /= {}
    /\ \E s \in Values(text, "ledger_address_index", "integer") : ParseUsize(s) /= {}

One(S) == CHOOSE x \in S : TRUE

FromToml(text) ==
    Config(One(Values(text, "endpoint", "string")),
           One(ParseBool(One(Values(text, "use_ledger", "boolean")))),
           One(ParseUsize(One(Values(text, "ledger_address_index", "integer")))),
           One(Values(text, "path_to_keystore", "string")))

CorruptTexts ==
    { <<>>,
      << <<"endpoint", "string", DefaultEndpoint>>,
         <<"use_ledger", "string", "yes">>,
         <<"ledger_address_index", "integer", "0">>,
         <<"path_to_keystore", "string", DefaultKeystore>> >> }

\* --------------------------------------------------------- file system
\* dir: ~/.kiwistand exists; exists: config.toml exists; text: its content.
Fs(dir, exists, text) == [dir |-> dir, exists |-> exists, text |-> text]

write_config(disk, config) == Fs(TRUE, TRUE, ToToml(config))

\* Variant of read_config that replaces an unparseable file by the defaults.
read_config_healing(disk) ==
    IF disk.exists /\ Parses(disk.text)
    THEN [ok |-> TRUE, config |-> Some(FromToml(disk.text)), fs |-> disk,
          wrote |-> 0, err |-> ""]
    ELSE [ok |-> TRUE, config |-> Some(DefaultConfig),
          fs |-> write_config(disk, DefaultConfig), wrote |-> 1, err |-> ""]

read_config(disk) ==
    IF disk.exists
    THEN IF Parses(disk.text)
         THEN [ok |-> TRUE, config |-> Some(FromToml(disk.text)), fs |-> disk,
               wrote |-> 0, err |-> ""]
         ELSE [ok |-> FALSE, config |-> None, fs |-> disk,
               wrote |-> 0, err |-> "Error: Couldn't parse config file"]
    ELSE [ok |-> TRUE, config |-> Some(DefaultConfig),
          fs |-> write_config(disk, DefaultConfig), wrote |-> 1, err |-> ""]

overwrite_config(disk) ==
    IF disk.dir
    THEN [ok |-> TRUE, fs |-> Fs(TRUE, TRUE, ToToml(DefaultConfig)), wrote |-> 1, err |-> ""]
    ELSE [ok |-> FALSE, fs |-> disk, wrote |-> 0, err |-> "overwrite_config: unwrap on Err"]

\* ------------------------------------------------------------ commands
\* One record for the three subcommands; the fields a subcommand does not
\* have are None / FALSE.
Command(kind, href, title, password, show, ledger, index, endpoint, keystore, reset) ==
    [kind |-> kind, href |-> href, title |-> title, password |-> password,
     show |-> show, ledger |-> ledger, ledger_address_index |-> index,
     endpoint |-> endpoint, keystore |-> keystore, reset |-> reset]

NoCommand == Command("none", None, None, None, FALSE, None, None, None, None, FALSE)

SubmitArgs ==
    {Command("submit", h, t, p, FALSE, None, None, None, None, FALSE) :
        h \in Opt(Hrefs), t \in Opt(Titles), p \in Opt(Passwords)}

VoteArgs ==
    {Command("vote", h, None, p, FALSE, None, None, None, None, FALSE) :
        h \in Opt(Hrefs), p \in Opt(Passwords)}

ConfigArgs ==
    {Command("config", None, None, None, s, l, i, e, k, r) :
        s \in BOOLEAN, l \in Opt(BOOLEAN), i \in Opt(Indexes),
        e \in Opt(Endpoints), k \in Opt(Paths), r \in BOOLEAN}

Commands == SubmitArgs \cup VoteArgs \cup ConfigArgs

Dispatch(kind) == IF kind = "config" THEN "cfg_reset" ELSE "main_read"

\* ------------------------------------------------------ config handler
\* The four setters of the config arm, each followed by write_config.
config_apply(args, c0, d0) ==
    LET c1 == IF IsSome(args.ledger)
              THEN [c0 EXCEPT !.use_ledger = Unwrap(args.ledger)] ELSE c0
        d1 == IF IsSome(args.ledger) THEN write_config(d0, c1) ELSE d0
        c2 == IF IsSome(args.ledger_address_index)
              THEN [c1 EXCEPT !.ledger_address_index = Unwrap(args.ledger_address_index)]
              ELSE c1
        d2 == IF IsSome(args.ledger_address_index) THEN write_config(d1, c2) ELSE d1
        c3 == IF IsSome(args.endpoint)
              THEN [c2 EXCEPT !.endpoint = Unwrap(args.endpoint)] ELSE c2
        d3 == IF IsSome(args.endpoint) THEN write_config(d2, c3) ELSE d2
        c4 == IF IsSome(args.keystore)
              THEN [c3 EXCEPT !.path_to_keystore = Unwrap(args.keystore)] ELSE c3
        d4 == IF IsSome(args.keystore) THEN write_config(d3, c4) ELSE d3
    IN  [config |-> c4, fs |-> d4,
         wrote |-> Len(args.ledger) + Len(args.ledger_address_index)
                     + Len(args.endpoint) + Len(args.keystore)]

\* Key files opened by the keystore option: it stores the path only.
\* Variant of config_key_reads that opens the key file it is given.
config_key_reads_validating(args) ==
    IF IsSome(args.keystore) THEN <<Unwrap(args.keystore)>> ELSE <<>>

config_key_reads(args) == <<>>

\* ------------------------------------------------ submit / vote pipeline
\* The arguments main passes to create_message, or the panic it raises.
main_args(args, ledger) ==
    IF IsNone(args.href)
    THEN [ok |-> FALSE, call |-> None, err |-> "href must be provided"]
    ELSE IF args.kind = "submit" /\ IsNone(args.title)
    THEN [ok |-> FALSE, call |-> None, err |-> "title must be provided"]
    ELSE [ok |-> TRUE, err |-> "",
          call |-> Some([password |-> IF ledger THEN None ELSE args.password,
                         href |-> Unwrap(args.href),
                         title |-> IF args.kind = "submit" THEN Unwrap(args.title) ELSE "",
                         ledger |-> ledger])]

\* Variant of Message with title and href exchanged.
Message_swapped(title, href, timestamp) ==
    [title |-> href, href |-> title, type |-> "amplify", timestamp |-> timestamp]

Message(title, href, timestamp) ==
    [title |-> title, href |-> href, type |-> "amplify", timestamp |-> timestamp]

\* A signature is determined by the signer and the typed message.
Signature(backend, account, message) ==
    [backend |-> backend, account |-> account, message |-> message]

\* Ledger::new, then sign_typed_struct on the account of the given index.
sign_ledger(message, ledger_address_index, connected, approved) ==
    [call |-> [backend |-> "ledger", account |-> ToString(ledger_address_index),
               message |-> message],
     ok |-> connected /\ approved,
     sig |-> IF connected /\ approved
             THEN Some(Signature("ledger", ToString(ledger_address_index), message))
             ELSE None,
     err |-> IF ~connected THEN "Ledger::new: unwrap on Err"
             ELSE IF ~approved THEN "failed to sign typed data" ELSE ""]

\* Variant of local_password that takes a missing password as the empty one.
local_password_defaulted(password) ==
    [ok |-> TRUE, pw |-> IF IsSome(password) THEN Unwrap(password) ELSE "", err |-> ""]

local_password(password) ==
    IF IsSome(password)
    THEN [ok |-> TRUE, pw |-> Unwrap(password), err |-> ""]
    ELSE [ok |-> FALSE, pw |-> "", err |-> "password must be provided"]

\* decrypt_keystore on <user dir>/key; present: the key file is there.
read_key(password, present) ==
    [path |-> KeyPath,
     ok |-> present /\ password = KeyPassword,
     err |-> IF present /\ password = KeyPassword THEN ""
             ELSE "Problem reading and/or decrypting the key store"]

sign(wallet, message) ==
    [call |-> [backend |-> "local", account |-> wallet, message |-> message],
     sig |-> Some(Signature("local", wallet, message))]

Body(message, sig) ==
    [title |-> message.title, href |-> message.href, type |-> message.type,
     timestamp |-> message.timestamp, signature |-> <<"0x", sig>>]

\* Variant of send_next that posts again after a failure.
send_next_retry(ok) == IF ok THEN "send_text" ELSE "send_post"

send_next(ok) == IF ok THEN "send_text" ELSE "aborted"

\* ---------------------------------------------------------------- state
VARIABLES
    fs,          \* the user directory and config.toml
    pc,          \* position of the process: idle, a step of main, done, aborted
    cmd,         \* the parsed command line
    err,         \* the panic message of an aborted process
    config,      \* main: let config = read_config()
    call,        \* the arguments main passes to create_message
    message,     \* create_message: let message
    cmConfig,    \* create_message: let config = read_config()
    sig,         \* create_message: let sig
    body,        \* create_message: let body
    sendConfig,  \* send: let config = read_config()
    loaded,      \* the value the latest read_config returned
    loads,       \* read_config calls of this process
    cfgWrites,   \* writes of config.toml by this process
    keyReads,    \* key files opened by this process
    signCalls,   \* requests made to a signing backend by this process
    posts,       \* HTTP POSTs issued by this process
    edits        \* changes of config.toml made by others while this process runs

vars == <<fs, pc, cmd, err, config, call, message, cmConfig, sig, body,
          sendConfig, loaded, loads, cfgWrites, keyReads, signCalls, posts, edits>>

locals == <<config, call, message, cmConfig, sig, body, sendConfig>>
effects == <<cfgWrites, keyReads, signCalls, posts>>

InitialFs ==
    {Fs(FALSE, FALSE, <<>>), Fs(TRUE, FALSE, <<>>), Fs(TRUE, TRUE, ToToml(DefaultConfig))}
        \cup {Fs(TRUE, TRUE, t) : t \in CorruptTexts}

Init ==
    /\ fs \in InitialFs
    /\ pc = "idle"
    /\ cmd = NoCommand
    /\ err = ""
    /\ config = None /\ call = None /\ message = None /\ cmConfig = None
    /\ sig = None /\ body = None /\ sendConfig = None
    /\ loaded = None /\ loads = 0
    /\ cfgWrites = 0 /\ keyReads = <<>> /\ signCalls = <<>> /\ posts = <<>>
    /\ edits = 0

\* Cli::parse and the match on the subcommand.
Start ==
    /\ pc = "idle"
    /\ \E c \in Commands : cmd' = c /\ pc' = Dispatch(c.kind)
    /\ UNCHANGED <<edits, fs, err, locals, loaded, loads, effects>>

\* The process ends; the next command line starts a new process.
Exit ==
    /\ pc \in {"done", "aborted"}
    /\ pc' = "idle" /\ cmd' = NoCommand /\ err' = ""
    /\ config' = None /\ call' = None /\ message' = None /\ cmConfig' = None
    /\ sig' = None /\ body' = None /\ sendConfig' = None
    /\ loaded' = None /\ loads' = 0
    /\ cfgWrites' = 0 /\ keyReads' = <<>> /\ signCalls' = <<>> /\ posts' = <<>>
    /\ edits' = 0
    /\ UNCHANGED fs

\* config arm: if args.reset { overwrite_config() }
ConfigReset ==
    /\ pc = "cfg_reset"
    /\ IF cmd.reset
       THEN LET r == overwrite_config(fs)
            IN  /\ fs' = r.fs
                /\ cfgWrites' = cfgWrites + r.wrote
                /\ pc' = IF r.ok THEN "cfg_read" ELSE "aborted"
                /\ err' = r.err
       ELSE /\ pc' = "cfg_read"
            /\ UNCHANGED <<fs, cfgWrites, err>>
    /\ UNCHANGED <<edits, cmd, locals, loaded, loads, keyReads, signCalls, posts>>

\* config arm: let mut config = read_config()
ConfigRead ==
    /\ pc = "cfg_read"
    /\ LET r == read_config(fs)
       IN  /\ fs' = r.fs
           /\ cfgWrites' = cfgWrites + r.wrote
           /\ loaded' = r.config /\ loads' = loads + 1
           /\ config' = r.config
           /\ pc' = IF r.ok THEN "cfg_apply" ELSE "aborted"
           /\ err' = r.err
    /\ UNCHANGED <<edits, cmd, call, message, cmConfig, sig, body, sendConfig,
                   keyReads, signCalls, posts>>

\* config arm: show and the four setters
ConfigApply ==
    /\ pc = "cfg_apply"
    /\ LET r == config_apply(cmd, Unwrap(config), fs)
       IN  /\ fs' = r.fs
           /\ config' = Some(r.config)
           /\ cfgWrites' = cfgWrites + r.wrote
    /\ keyReads' = keyReads \o config_key_reads(cmd)
    /\ pc' = "done"
    /\ UNCHANGED <<edits, cmd, err, call, message, cmConfig, sig, body, sendConfig,
                   loaded, loads, signCalls, posts>>

\* submit / vote arm: let config = read_config()
MainReadConfig ==
    /\ pc = "main_read"
    /\ LET r == read_config(fs)
       IN  /\ fs' = r.fs
           /\ cfgWrites' = cfgWrites + r.wrote
           /\ loaded' = r.config /\ loads' = loads + 1
           /\ config' = r.config
           /\ pc' = IF r.ok THEN "main_args" ELSE "aborted"
           /\ err' = r.err
    /\ UNCHANGED <<edits, cmd, call, message, cmConfig, sig, body, sendConfig,
                   keyReads, signCalls, posts>>

\* submit / vote arm: href, title, password and the call of create_message
MainArgs ==
    /\ pc = "main_args"
    /\ LET r == main_args(cmd, Unwrap(config).use_ledger)
       IN  /\ call' = r.call
           /\ pc' = IF r.ok THEN "cm_build" ELSE "aborted"
           /\ err' = r.err
    /\ UNCHANGED <<edits, fs, cmd, config, message, cmConfig, sig, body, sendConfig,
                   loaded, loads, effects>>

\* create_message: get_unix_time and the Message value
CreateMessageBuild ==
    /\ pc = "cm_build"
    /\ \E timestamp \in Times :
          message' = Some(Message(Unwrap(call).title, Unwrap(call).href, timestamp))
    /\ pc' = "cm_read"
    /\ UNCHANGED <<edits, fs, cmd, err, config, call, cmConfig, sig, body, sendConfig,
                   loaded, loads, effects>>

\* create_message: let config = read_config()
CreateMessageReadConfig ==
    /\ pc = "cm_read"
    /\ LET r == read_config(fs)
       IN  /\ fs' = r.fs
           /\ cfgWrites' = cfgWrites + r.wrote
           /\ loaded' = r.config /\ loads' = loads + 1
           /\ cmConfig' = r.config
           /\ pc' = IF r.ok THEN "cm_sign" ELSE "aborted"
           /\ err' = r.err
    /\ UNCHANGED <<edits, cmd, config, call, message, sig, body, sendConfig,
                   keyReads, signCalls, posts>>

\* create_message: if ledger { sign_ledger(&message, index) }
CreateMessageSignLedger ==
    /\ pc = "cm_sign"
    /\ Unwrap(call).ledger
    /\ \E connected \in BOOLEAN, approved \in BOOLEAN :
          LET r == sign_ledger(Unwrap(message), Unwrap(cmConfig).ledger_address_index,
                               connected, approved)
          IN  /\ signCalls' = Append(signCalls, r.call)
              /\ sig' = r.sig
              /\ pc' = IF r.ok THEN "cm_body" ELSE "aborted"
              /\ err' = r.err
    /\ UNCHANGED <<edits, fs, cmd, config, call, message, cmConfig, body, sendConfig,
                   loaded, loads, cfgWrites, keyReads, posts>>

\* create_message: else { password, read_key, sign }
CreateMessageSignLocal ==
    /\ pc = "cm_sign"
    /\ ~Unwrap(call).ledger
    /\ LET p == local_password(Unwrap(call).password)
       IN  IF ~p.ok
           THEN /\ pc' = "aborted" /\ err' = p.err
                /\ UNCHANGED <<keyReads, signCalls, sig>>
           ELSE \E present \in BOOLEAN :
                   LET k == read_key(p.pw, present)
                       s == sign(k.path, Unwrap(message))
                   IN  /\ keyReads' = Append(keyReads, k.path)
                       /\ IF k.ok
                          THEN /\ signCalls' = Append(signCalls, s.call)
                               /\ sig' = s.sig
                               /\ pc' = "cm_body" /\ err' = ""
                          ELSE /\ pc' = "aborted" /\ err' = k.err
                               /\ UNCHANGED <<signCalls, sig>>
    /\ UNCHANGED <<edits, fs, cmd, config, call, message, cmConfig, body, sendConfig,
                   loaded, loads, cfgWrites, posts>>

\* create_message: let body = json!({...})
CreateMessageBody ==
    /\ pc = "cm_body"
    /\ body' = Some(Body(Unwrap(message), Unwrap(sig)))
    /\ pc' = "send_read"
    /\ UNCHANGED <<edits, fs, cmd, err, config, call, message, cmConfig, sig, sendConfig,
                   loaded, loads, effects>>

\* send: let config = read_config()
SendReadConfig ==
    /\ pc = "send_read"
    /\ LET r == read_config(fs)
       IN  /\ fs' = r.fs
           /\ cfgWrites' = cfgWrites + r.wrote
           /\ loaded' = r.config /\ loads' = loads + 1
           /\ sendConfig' = r.config
           /\ pc' = IF r.ok THEN "send_post" ELSE "aborted"
           /\ err' = r.err
    /\ UNCHANGED <<edits, cmd, config, call, message, cmConfig, sig, body,
                   keyReads, signCalls, posts>>

\* send: client.post(&config.endpoint).json(&message).send()
SendPost ==
    /\ pc = "send_post"
    /\ \E ok \in BOOLEAN :
          /\ posts' = Append(posts, [endpoint |-> Unwrap(sendConfig).endpoint,
                                     body |-> Unwrap(body), ok |-> ok])
          /\ pc' = send_next(ok)
          /\ err' = IF ok THEN "" ELSE "Failed sending message"
    /\ UNCHANGED <<edits, fs, cmd, locals, loaded, loads, cfgWrites, keyReads, signCalls>>

\* send: response.text(), printed; an error of the body is printed too
SendText ==
    /\ pc = "send_text"
    /\ pc' = "done"
    /\ UNCHANGED <<edits, fs, cmd, err, locals, loaded, loads, effects>>

Next ==
    \/ Start
    \/ Exit
    \/ ConfigReset
    \/ ConfigRead
    \/ ConfigApply
    \/ MainReadConfig
    \/ MainArgs
    \/ CreateMessageBuild
    \/ CreateMessageReadConfig
    \/ CreateMessageSignLedger
    \/ CreateMessageSignLocal
    \/ CreateMessageBody
    \/ SendReadConfig
    \/ SendPost
    \/ SendText

Spec == Init /\ [][Next]_vars

\* While a command runs, another process of the program runs `config` with
\* one setter, or the user damages or removes config.toml.
SingleSetters ==
    {a \in ConfigArgs : /\ ~a.show /\ ~a.reset
                        /\ Len(a.ledger) + Len(a.ledger_address_index)
                             + Len(a.endpoint) + Len(a.keystore) = 1}

EnvEdit ==
    /\ pc \notin {"idle", "done", "aborted"}
    /\ edits < MaxEdits
    /\ edits' = edits + 1
    /\ \/ /\ read_config(fs).ok
          /\ \E a \in SingleSetters :
                fs' = config_apply(a, Unwrap(read_config(fs).config), read_config(fs).fs).fs
       \/ \E t \in CorruptTexts : fs' = Fs(TRUE, TRUE, t)
       \/ fs.exists /\ fs' = Fs(TRUE, FALSE, <<>>)
    /\ fs' /= fs
    /\ UNCHANGED <<pc, cmd, err, locals, loaded, loads, effects>>

NextEnv == Next \/ EnvEdit

SpecEnv == Init /\ [][NextEnv]_vars

TypeOK ==
    /\ pc \in {"idle", "cfg_reset", "cfg_read", "cfg_apply", "main_read", "main_args",
               "cm_build", "cm_read", "cm_sign", "cm_body", "send_read", "send_post",
               "send_text", "done", "aborted"}
    /\ cmd \in Commands \cup {NoCommand}
    /\ fs.exists => fs.dir
    /\ loads \in 0..3
    /\ cfgWrites \in 0..6
    /\ edits \in 0..MaxEdits

\* ================================================================ claims
Pipeline == cmd.kind \in {"submit", "vote"}
Ended == pc \in {"done", "aborted"}

\* C1: a submit whose href or title is missing or empty, and a vote whose
\* href is missing or empty, ends in an error without any key file opened,
\* any signing backend invoked or any POST issued.
C1_Invalid ==
    /\ Pipeline
    /\ \/ IsNone(cmd.href)
       \/ cmd.href = Some("")
       \/ cmd.kind = "submit" /\ (IsNone(cmd.title) \/ cmd.title = Some(""))

C1_ValidationBeforeSigningAndNetwork ==
    C1_Invalid =>
        /\ keyReads = <<>> /\ signCalls = <<>> /\ posts = <<>>
        /\ pc /= "done"

\* C2: with the Local backend configured and no password given, submit and
\* vote fail before any side effect: config.toml is not written, no key file
\* is opened, no signing backend is invoked, no POST is issued.
C2_LocalWithoutPassword ==
    /\ Pipeline
    /\ IsSome(config) /\ ~Unwrap(config).use_ledger
    /\ IsNone(cmd.password)

C2_NoPasswordNoSideEffect ==
    C2_LocalWithoutPassword =>
        /\ cfgWrites = 0 /\ keyReads = <<>> /\ signCalls = <<>> /\ posts = <<>>
        /\ pc /= "done"
        /\ pc = "aborted" =>
              err \in {"password must be provided", "href must be provided",
                       "title must be provided"}

C2_Witness ==
    /\ C2_LocalWithoutPassword
    /\ pc = "aborted" /\ err = "password must be provided"
    /\ IsSome(message)

\* C3: a submit or vote issues at most one POST, only after one signature
\* over the built message was produced and put in the body; after a failed
\* POST the process is aborted, with no second POST and no second signing.
C3_SinglePostAfterSigning ==
    /\ Len(posts) <= 1
    /\ posts /= <<>> =>
          /\ Len(signCalls) = 1
          /\ signCalls[1].message = Unwrap(message)
          /\ IsSome(sig) /\ Unwrap(sig).message = Unwrap(message)
          /\ Unwrap(sig).backend = signCalls[1].backend
          /\ Unwrap(sig).account = signCalls[1].account
          /\ posts[1].body = Body(Unwrap(message), Unwrap(sig))
          /\ ~posts[1].ok => pc = "aborted" /\ err = "Failed sending message"

C3_Witness ==
    /\ Len(posts) = 1 /\ ~posts[1].ok
    /\ pc = "aborted"

\* C4: a config command, whatever its options, invokes no signing backend,
\* opens no key file and issues no POST.
C4_ConfigureIsLocal ==
    cmd.kind = "config" => keyReads = <<>> /\ signCalls = <<>> /\ posts = <<>>

C4_Witness ==
    /\ cmd.kind = "config" /\ pc = "done"
    /\ cmd.reset /\ cmd.show
    /\ IsSome(cmd.ledger) /\ IsSome(cmd.ledger_address_index)
    /\ IsSome(cmd.endpoint) /\ IsSome(cmd.keystore)
    /\ cfgWrites = 5

\* C5: a load with no config.toml writes the defaults and returns them; a
\* load of a file that does not parse aborts the process and leaves the
\* file as it was; a load never changes an existing file.
C5_LoadStep ==
    loads' = loads + 1 =>
        /\ ~fs.exists =>
              /\ fs'.exists /\ Parses(fs'.text) /\ FromToml(fs'.text) = DefaultConfig
              /\ loaded' = Some(DefaultConfig)
              /\ pc' /= "aborted"
        /\ fs.exists => fs' = fs
        /\ (fs.exists /\ ~Parses(fs.text)) =>
              pc' = "aborted" /\ err' = "Error: Couldn't parse config file"

C5_LoadCreatesOrFails == [][C5_LoadStep]_vars

C5_Witness ==
    /\ pc = "aborted" /\ err = "Error: Couldn't parse config file"
    /\ loads = 1
    /\ fs.exists /\ fs.text \in CorruptTexts

\* C6: a config command with reset and no other option completes without
\* error from any state of the store and leaves the defaults stored.
C6_ResetOnly ==
    /\ cmd.kind = "config" /\ cmd.reset /\ ~cmd.show
    /\ IsNone(cmd.ledger) /\ IsNone(cmd.ledger_address_index)
    /\ IsNone(cmd.endpoint) /\ IsNone(cmd.keystore)

C6_ResetRestoresDefaults ==
    (C6_ResetOnly /\ Ended) =>
        /\ pc = "done"
        /\ fs.exists /\ Parses(fs.text) /\ FromToml(fs.text) = DefaultConfig

\* C7: with the Local backend, the key file opened is the one at the
\* configuration's path_to_keystore.
C7_KeyReadAtConfiguredPath ==
    \A i \in DOMAIN keyReads :
        IsSome(cmConfig) /\ keyReads[i] = Unwrap(cmConfig).path_to_keystore

\* C8: the backend choice, the account index signed with and the endpoint
\* posted to all come from the configuration main loaded, even if config.toml
\* is changed while the command runs.
C8_OneConfiguration ==
    Pipeline =>
        /\ \A i \in DOMAIN signCalls :
              /\ (signCalls[i].backend = "ledger") = Unwrap(config).use_ledger
              /\ signCalls[i].backend = "ledger" =>
                    signCalls[i].account = ToString(Unwrap(config).ledger_address_index)
        /\ \A i \in DOMAIN posts : posts[i].endpoint = Unwrap(config).endpoint

\* C9: a vote signs and delivers a message with the empty title; a submit
\* signs and delivers the title it was given; type is "amplify" and href is
\* the href given.
C9_Expected(m) ==
    /\ m.type = "amplify"
    /\ m.href = Unwrap(cmd.href)
    /\ m.title = IF cmd.kind = "vote" THEN "" ELSE Unwrap(cmd.title)

C9_TitleOfVoteAndSubmit ==
    /\ \A i \in DOMAIN signCalls : C9_Expected(signCalls[i].message)
    /\ \A i \in DOMAIN posts :
          /\ C9_Expected(posts[i].body)
          /\ C9_Expected(posts[i].body.signature[2].message)

C9_Witness ==
    /\ pc = "done" /\ cmd.kind = "submit"
    /\ Len(posts) = 1 /\ posts[1].ok
    /\ posts[1].body.title = "hello world"
    /\ posts[1].body.href = "https://example.com"

====
